---- MODULE Spec2Model ----
(***************************************************************************)
(* Workflow orchestration of stox-gateway: the Workflow state machine      *)
(* (internal/workflow, Workflow and its methods), the Manager that drives  *)
(* it (CreateWorkflow, StartNextStep, CompleteStep, GetWorkflow,           *)
(* ListWorkflows), the retry loop of EventBus.publishEvent, the websocket  *)
(* Hub and the HTTP handler of the step reports.  Each part has its own    *)
(* next-state relation and specification; the variables of the other       *)
(* parts stay as Init leaves them.                                         *)
(*                                                                         *)
(* Identifiers: uuid.New() is modelled as a fresh identifier.  Workflow    *)
(* number w (1..MaxWorkflows) owns the step identifiers 3*(w-1)+1 ..       *)
(* 3*(w-1)+3; step identifier 0 is one that no workflow owns.              *)
(* time.Now() is modelled by the single value Now, a nil *time.Time by     *)
(* NoTime.  An error value is the sequence of the message parts that       *)
(* fmt.Errorf chains together; nil is the empty sequence.                  *)
(***************************************************************************)
EXTENDS Integers, Sequences, FiniteSets, TLC

\* ---------------------------------------------------------------- bounds
MaxWorkflows == 1

\* ------------------------------------------------------- program constants
StatusPending == "pending"
StatusProcessing == "processing"
StatusCompleted == "completed"
StatusFailed == "failed"

StepImageProcessing == "image_processing"
StepAIEnhancement == "ai_enhancement"
StepSEOGeneration == "seo_generation"

StepStatusPending == "pending"
StepStatusProcessing == "processing"
StepStatusCompleted == "completed"
StepStatusFailed == "failed"

EventWorkflowStart == "workflow.start"
EventWorkflowNext == "workflow.next_step"
EventStepCompleted == "step.completed"
EventWorkflowDone == "workflow.completed"
EventWorkflowFail == "workflow.failed"

\* ------------------------------------------------------------ input values
NoTime == 0
Now == 1
NoResult == "nil"
NoErr == << >>

\* Identifiers a request may carry: those of the workflows that can exist and
\* one more that is never allocated.
WorkflowIDs == 1..(MaxWorkflows + 1)
StepIDs == 0..(3 * MaxWorkflows)
Payloads == {"Chair", "Table"}
Results == {"url_x"}
ErrorMsgs == {"timeout"}

VARIABLES
    workflows,   \* Manager.workflows: workflow id -> Workflow
    creating,    \* position of each CreateWorkflow call, by the id it allocated
    emitted,     \* the publish calls made by the last operation, in order
    lastCall,    \* the last operation: its request and its return value
    failureApplied, \* workflows on which a success=false completion marked a step
    finalSucceeded, \* workflows on which a success=true completion named the last step
    dispatched,  \* step ids handed to a service (PublishNextStep succeeded), not yet reported
    snapshot,    \* the map a ListWorkflows call returned to its caller
    handler,     \* WorkflowHandler.StepCompleted: each request goroutine's position
    pub,         \* EventBus.publishEvent: the configuration and the retry loop
    clients,     \* Hub.clients: the registered clients
    client,      \* the Client objects ServeWS made: workflowID, send channel
    register,    \* Hub.register: the client a ServeWS is handing to Run, or NoClient
    unregister,  \* Hub.unregister: the client a readPump is handing to Run, or NoClient
    notifier     \* Hub.BroadcastWorkflowUpdate: each calling goroutine's position

mgrVars == <<workflows, creating, emitted, lastCall, failureApplied, finalSucceeded>>
hubVars == <<clients, client, register, unregister, notifier>>
vars == <<workflows, creating, emitted, lastCall, failureApplied, finalSucceeded,
          dispatched, snapshot, handler, pub,
          clients, client, register, unregister, notifier>>

\* What the Manager's own operations never touch.
notManager == <<dispatched, snapshot, handler, pub, hubVars>>

\* ------------------------------------------------------ Workflow (model.go)
StepOf(id, k) == 3 * (id - 1) + k

\* Mutant: every step is created already in progress.
NewStep_CreatedProcessing(stepID, type, service) ==
    [ID |-> stepID, Type |-> type, Status |-> StepStatusProcessing,
     ServiceName |-> service, StartedAt |-> NoTime, CompletedAt |-> NoTime,
     Result |-> NoResult, ErrorMsg |-> ""]

NewStep(stepID, type, service) ==
    [ID |-> stepID, Type |-> type, Status |-> StepStatusPending,
     ServiceName |-> service, StartedAt |-> NoTime, CompletedAt |-> NoTime,
     Result |-> NoResult, ErrorMsg |-> ""]

\* ProductID is a second fresh name for the same workflow and is left out;
\* Metadata holds the submitted payload, which no operation reads.
NewWorkflow(id, productData) ==
    [ID |-> id,
     Status |-> StatusPending,
     Steps |-> << NewStep(StepOf(id, 1), StepImageProcessing, "image-service"),
                  NewStep(StepOf(id, 2), StepAIEnhancement, "ai-service"),
                  NewStep(StepOf(id, 3), StepSEOGeneration, "seo-service") >>,
     CurrentStep |-> 0,
     CreatedAt |-> Now,
     UpdatedAt |-> Now,
     CompletedAt |-> NoTime,
     Metadata |-> productData,
     ErrorMsg |-> ""]

\* The loop `for i := range w.Steps { if w.Steps[i].ID == stepID {...; return} }`:
\* the 0-based index of the first step with that ID, or -1 when the loop ends
\* without a match.
FindStep(w, stepID) ==
    IF \E i \in 1..Len(w.Steps) : w.Steps[i].ID = stepID
    THEN (CHOOSE i \in 1..Len(w.Steps) :
              /\ w.Steps[i].ID = stepID
              /\ \A j \in 1..(i - 1) : w.Steps[j].ID # stepID) - 1
    ELSE -1

\* Mutant: an exhausted pipeline yields its last step again instead of nil.
GetCurrentStep_Clamped(w) ==
    IF w.CurrentStep >= Len(w.Steps) THEN Len(w.Steps) - 1 ELSE w.CurrentStep

\* The 0-based index of the current step, or -1 for the nil return.
GetCurrentStep(w) ==
    IF w.CurrentStep >= Len(w.Steps) THEN -1 ELSE w.CurrentStep

\* Mutant: the cursor moves on only when the step after the current one is
\* named (off by one in the comparison with w.CurrentStep).
MarkStepCompleted_OffByOne(w, stepID, result) ==
    LET i == FindStep(w, stepID) IN
    IF i = -1 THEN w
    ELSE LET w1 == [w EXCEPT !.Steps[i + 1].Status = StepStatusCompleted,
                             !.Steps[i + 1].CompletedAt = Now,
                             !.Steps[i + 1].Result = result,
                             !.UpdatedAt = Now]
         IN IF i = w.CurrentStep + 1
            THEN LET w2 == [w1 EXCEPT !.CurrentStep = w.CurrentStep + 1]
                 IN IF w2.CurrentStep >= Len(w2.Steps)
                    THEN [w2 EXCEPT !.Status = StatusCompleted,
                                    !.CompletedAt = Now]
                    ELSE w2
            ELSE w1

\* Mutant: the completed step keeps its status (the assignment of
\* StepStatusCompleted is missing) while the cursor still moves on.
MarkStepCompleted_KeepsStatus(w, stepID, result) ==
    LET i == FindStep(w, stepID) IN
    IF i = -1 THEN w
    ELSE LET w1 == [w EXCEPT !.Steps[i + 1].CompletedAt = Now,
                             !.Steps[i + 1].Result = result,
                             !.UpdatedAt = Now]
         IN IF i = w.CurrentStep
            THEN LET w2 == [w1 EXCEPT !.CurrentStep = w.CurrentStep + 1]
                 IN IF w2.CurrentStep >= Len(w2.Steps)
                    THEN [w2 EXCEPT !.Status = StatusCompleted,
                                    !.CompletedAt = Now]
                    ELSE w2
            ELSE w1

MarkStepCompleted(w, stepID, result) ==
    LET i == FindStep(w, stepID) IN
    IF i = -1 THEN w
    ELSE LET w1 == [w EXCEPT !.Steps[i + 1].Status = StepStatusCompleted,
                             !.Steps[i + 1].CompletedAt = Now,
                             !.Steps[i + 1].Result = result,
                             !.UpdatedAt = Now]
         IN IF i = w.CurrentStep
            THEN LET w2 == [w1 EXCEPT !.CurrentStep = w.CurrentStep + 1]
                 IN IF w2.CurrentStep >= Len(w2.Steps)
                    THEN [w2 EXCEPT !.Status = StatusCompleted,
                                    !.CompletedAt = Now]
                    ELSE w2
            ELSE w1

\* Mutant: the step is marked but the message is not copied to the workflow.
MarkStepFailed_NoWorkflowMsg(w, stepID, errorMsg) ==
    LET i == FindStep(w, stepID) IN
    IF i = -1 THEN w
    ELSE [w EXCEPT !.Steps[i + 1].Status = StepStatusFailed,
                   !.Steps[i + 1].ErrorMsg = errorMsg,
                   !.UpdatedAt = Now,
                   !.Status = StatusFailed]

MarkStepFailed(w, stepID, errorMsg) ==
    LET i == FindStep(w, stepID) IN
    IF i = -1 THEN w
    ELSE [w EXCEPT !.Steps[i + 1].Status = StepStatusFailed,
                   !.Steps[i + 1].ErrorMsg = errorMsg,
                   !.UpdatedAt = Now,
                   !.Status = StatusFailed,
                   !.ErrorMsg = errorMsg]

StartStep(w, stepID) ==
    LET i == FindStep(w, stepID) IN
    IF i = -1 THEN w
    ELSE [w EXCEPT !.Steps[i + 1].Status = StepStatusProcessing,
                   !.Steps[i + 1].StartedAt = Now,
                   !.UpdatedAt = Now,
                   !.Status = IF w.Status = StatusPending
                              THEN StatusProcessing ELSE w.Status]

\* --------------------------------------------------- EventPublisher calls
\* One publish call: the event that is handed to the bus and whether the
\* bus reported success.
Event(type, wfID, stepID, stepType, ok) ==
    [type |-> type, workflow |-> wfID, step |-> stepID,
     stepType |-> stepType, ok |-> ok]

PublishErr == <<"failed to publish event after retries">>

Call(op, wfID, stepID, success, result, errorMsg, err) ==
    [op |-> op, wf |-> wfID, stepID |-> stepID, success |-> success,
     result |-> result, errorMsg |-> errorMsg, err |-> err]

\* ------------------------------------------------------ Manager (manager.go)
\* Manager.workflows maps an identifier to a *Workflow.  Every workflow is
\* allocated once by NewWorkflow and its map entry is never replaced, so the
\* pointer to workflow id is modelled by id itself and the object it points
\* to is workflows[id]; NilPtr is the nil pointer.
NilPtr == 0

\* Mutant: the `if !exists` check is missing, nil is returned without an error.
GetWorkflowCall_NoCheck(store, wfID) ==
    IF wfID \notin DOMAIN store
    THEN [ptr |-> NilPtr, err |-> NoErr]
    ELSE [ptr |-> wfID, err |-> NoErr]

\* Manager.GetWorkflow: the pointer stored under wfID, or the not-found error.
GetWorkflowCall(store, wfID) ==
    IF wfID \notin DOMAIN store
    THEN [ptr |-> NilPtr, err |-> <<"workflow not found: ", wfID>>]
    ELSE [ptr |-> wfID, err |-> NoErr]

\* Manager.ListWorkflows: a new map with the same keys and the same pointers.
ListWorkflowsCall(store) == [k \in DOMAIN store |-> k]

\* Mutant: a failed PublishNextStep undoes the StartStep mark.
startNextStepInternal_RollsBack(w, ok) ==
    LET cur == GetCurrentStep(w) IN
    IF cur = -1
    THEN [wf |-> w, err |-> <<"no more steps to execute">>, events |-> << >>]
    ELSE LET step == w.Steps[cur + 1]
             w1 == StartStep(w, step.ID)
         IN [wf |-> IF ok THEN w1 ELSE w,
             err |-> IF ok THEN NoErr
                     ELSE <<"failed to publish next step event: ">> \o PublishErr,
             events |-> << Event(EventWorkflowNext, w.ID, step.ID, step.Type, ok) >>]

\* startNextStepInternal (the mutex is held by the caller): the workflow after
\* the call, the returned error and the publish calls made.  ok is the outcome
\* of eventBus.PublishNextStep.
startNextStepInternal(w, ok) ==
    LET cur == GetCurrentStep(w) IN
    IF cur = -1
    THEN [wf |-> w, err |-> <<"no more steps to execute">>, events |-> << >>]
    ELSE LET step == w.Steps[cur + 1]
             w1 == StartStep(w, step.ID)
         IN [wf |-> w1,
             err |-> IF ok THEN NoErr
                     ELSE <<"failed to publish next step event: ">> \o PublishErr,
             events |-> << Event(EventWorkflowNext, w.ID, step.ID, step.Type, ok) >>]

\* Manager.StartNextStep: lock, look the workflow up, startNextStepInternal.
StartNextStepCall(store, wfID, ok) ==
    IF wfID \notin DOMAIN store
    THEN [store |-> store, err |-> <<"workflow not found: ", wfID>>, events |-> << >>]
    ELSE LET r == startNextStepInternal(store[wfID], ok)
         IN [store |-> [store EXCEPT ![wfID] = r.wf], err |-> r.err,
             events |-> r.events]

\* Mutant: a failed PublishStepCompleted is returned to the caller instead of
\* being logged, and the next step is not started.
CompleteStepCall_ReturnsPublishErr(store, wfID, stepID, success, result, errorMsg, ok1, ok2) ==
    IF wfID \notin DOMAIN store
    THEN [store |-> store, err |-> <<"workflow not found: ", wfID>>, events |-> << >>]
    ELSE
    LET w == store[wfID] IN
    IF success
    THEN LET w1 == MarkStepCompleted(w, stepID, result)
             ev1 == Event(EventStepCompleted, wfID, stepID, "", ok1)
         IN IF ~ok1
            THEN [store |-> [store EXCEPT ![wfID] = w1],
                  err |-> <<"failed to publish step completed event: ">> \o PublishErr,
                  events |-> << ev1 >>]
            ELSE IF w1.Status = StatusCompleted
            THEN [store |-> [store EXCEPT ![wfID] = w1], err |-> NoErr,
                  events |-> << ev1, Event(EventWorkflowDone, wfID, 0, "", ok2) >>]
            ELSE LET r == startNextStepInternal(w1, ok2)
                 IN [store |-> [store EXCEPT ![wfID] = r.wf], err |-> r.err,
                     events |-> << ev1 >> \o r.events]
    ELSE LET w1 == MarkStepFailed(w, stepID, errorMsg)
         IN [store |-> [store EXCEPT ![wfID] = w1],
             err |-> <<"workflow step failed: ", errorMsg>>,
             events |-> << Event(EventWorkflowFail, wfID, 0, "", ok1) >>]

\* Manager.CompleteStep, the whole call under m.mutex.  ok1 is the outcome of
\* the first publish of the branch taken (PublishStepCompleted or
\* PublishWorkflowFailed), ok2 of the second (PublishWorkflowCompleted or
\* PublishNextStep).
CompleteStepCall(store, wfID, stepID, success, result, errorMsg, ok1, ok2) ==
    IF wfID \notin DOMAIN store
    THEN [store |-> store, err |-> <<"workflow not found: ", wfID>>, events |-> << >>]
    ELSE
    LET w == store[wfID] IN
    IF success
    THEN LET w1 == MarkStepCompleted(w, stepID, result)
             ev1 == Event(EventStepCompleted, wfID, stepID, "", ok1)
         IN IF w1.Status = StatusCompleted
            THEN [store |-> [store EXCEPT ![wfID] = w1], err |-> NoErr,
                  events |-> << ev1, Event(EventWorkflowDone, wfID, 0, "", ok2) >>]
            ELSE LET r == startNextStepInternal(w1, ok2)
                 IN [store |-> [store EXCEPT ![wfID] = r.wf], err |-> r.err,
                     events |-> << ev1 >> \o r.events]
    ELSE LET w1 == MarkStepFailed(w, stepID, errorMsg)
         IN [store |-> [store EXCEPT ![wfID] = w1],
             err |-> <<"workflow step failed: ", errorMsg>>,
             events |-> << Event(EventWorkflowFail, wfID, 0, "", ok1) >>]

InitManager ==
    /\ workflows = << >>
    /\ creating = << >>
    /\ emitted = << >>
    /\ lastCall = Call("NewManager", 0, 0, FALSE, NoResult, "", NoErr)
    /\ failureApplied = {}
    /\ finalSucceeded = {}

\* Mutant: the identifier of a new workflow repeats the one handed out last,
\* and the map assignment replaces the entry stored under it.
CreateWorkflowStoreStep_ReusesID(limit) ==
    /\ Cardinality(DOMAIN workflows) < limit
    /\ \E productData \in Payloads :
       LET n == Cardinality(DOMAIN workflows)
           id == IF n = 0 THEN 1 ELSE n
       IN
       /\ workflows' = [k \in DOMAIN workflows \cup {id} |->
                            IF k = id THEN NewWorkflow(id, productData)
                            ELSE workflows[k]]
       /\ creating' = [k \in DOMAIN creating \cup {id} |->
                           IF k = id THEN "publish" ELSE creating[k]]
       /\ lastCall' = Call("CreateWorkflow:store", id, 0, FALSE, NoResult, "", NoErr)
    /\ emitted' = << >>
    /\ UNCHANGED <<failureApplied, finalSucceeded>>

\* CreateWorkflow, lines 40-46, for a Manager that takes at most limit
\* workflows: build the workflow and store it under the lock.
CreateWorkflowStoreStep(limit) ==
    /\ Cardinality(DOMAIN workflows) < limit
    /\ \E productData \in Payloads :
       LET id == Cardinality(DOMAIN workflows) + 1 IN
       /\ workflows' = workflows @@ (id :> NewWorkflow(id, productData))
       /\ creating' = creating @@ (id :> "publish")
       /\ lastCall' = Call("CreateWorkflow:store", id, 0, FALSE, NoResult, "", NoErr)
    /\ emitted' = << >>
    /\ UNCHANGED <<failureApplied, finalSucceeded>>

\* The lock is released before the publish.
CreateWorkflowStore ==
    /\ CreateWorkflowStoreStep(MaxWorkflows)
    /\ UNCHANGED notManager

\* Mutant: a failed PublishWorkflowStart deletes the workflow again.
CreateWorkflowPublish_RollsBack ==
    \E id \in DOMAIN creating, ok \in BOOLEAN :
        /\ creating[id] = "publish"
        /\ emitted' = << Event(EventWorkflowStart, id, 0, "", ok) >>
        /\ creating' = [creating EXCEPT ![id] = IF ok THEN "start" ELSE "done"]
        /\ lastCall' = Call("CreateWorkflow:publish", id, 0, FALSE, NoResult, "",
                            IF ok THEN NoErr
                            ELSE <<"failed to start workflow: ">> \o PublishErr)
        /\ workflows' = IF ok THEN workflows
                        ELSE [k \in DOMAIN workflows \ {id} |-> workflows[k]]
        /\ UNCHANGED <<failureApplied, finalSucceeded>>
        /\ UNCHANGED notManager

\* CreateWorkflow, lines 54-60, of the call that allocated id: publish the
\* workflow start event without the lock; a failure returns (nil, err) and
\* the call ends.  ok is the outcome of eventBus.PublishWorkflowStart.
CreateWorkflowPublishStep(id, ok) ==
    /\ id \in DOMAIN creating
    /\ creating[id] = "publish"
    /\ emitted' = << Event(EventWorkflowStart, id, 0, "", ok) >>
    /\ creating' = [creating EXCEPT ![id] = IF ok THEN "start" ELSE "done"]
    /\ lastCall' = Call("CreateWorkflow:publish", id, 0, FALSE, NoResult, "",
                        IF ok THEN NoErr
                        ELSE <<"failed to start workflow: ">> \o PublishErr)
    /\ UNCHANGED <<workflows, failureApplied, finalSucceeded>>

CreateWorkflowPublish ==
    \E id \in DOMAIN creating, ok \in BOOLEAN :
        /\ CreateWorkflowPublishStep(id, ok)
        /\ UNCHANGED notManager

\* CreateWorkflow, lines 63-71: m.StartNextStep(ctx, workflow.ID), then return.
CreateWorkflowStartStep(id, ok) ==
    /\ id \in DOMAIN creating
    /\ creating[id] = "start"
    /\ LET r == StartNextStepCall(workflows, id, ok) IN
       /\ workflows' = r.store
       /\ emitted' = r.events
       /\ lastCall' = Call("CreateWorkflow:start", id, 0, FALSE, NoResult, "", r.err)
    /\ creating' = [creating EXCEPT ![id] = "done"]
    /\ UNCHANGED <<failureApplied, finalSucceeded>>

CreateWorkflowStart ==
    \E id \in DOMAIN creating, ok \in BOOLEAN :
        /\ CreateWorkflowStartStep(id, ok)
        /\ UNCHANGED notManager

StartNextStep ==
    \E wfID \in WorkflowIDs, ok \in BOOLEAN :
        LET r == StartNextStepCall(workflows, wfID, ok) IN
        /\ workflows' = r.store
        /\ emitted' = r.events
        /\ lastCall' = Call("StartNextStep", wfID, 0, FALSE, NoResult, "", r.err)
        /\ UNCHANGED <<creating, failureApplied, finalSucceeded>>
        /\ UNCHANGED notManager

\* Manager.GetWorkflow, a read under the reader lock.
GetWorkflow ==
    \E wfID \in WorkflowIDs :
        /\ lastCall' = Call("GetWorkflow", wfID, 0, FALSE, NoResult, "",
                            GetWorkflowCall(workflows, wfID).err)
        /\ emitted' = << >>
        /\ UNCHANGED <<workflows, creating, failureApplied, finalSucceeded>>
        /\ UNCHANGED notManager

\* Manager.CompleteStep called with one StepCompletedRequest.
CompleteStepReq(wfID, stepID, success, result, errorMsg, ok1, ok2) ==
    LET r == CompleteStepCall(workflows, wfID, stepID, success,
                              result, errorMsg, ok1, ok2)
        known == wfID \in DOMAIN workflows
        i == IF known THEN FindStep(workflows[wfID], stepID) ELSE -1
    IN
    /\ workflows' = r.store
    /\ emitted' = r.events
    /\ lastCall' = Call("CompleteStep", wfID, stepID, success, result, errorMsg, r.err)
    /\ failureApplied' = IF known /\ ~success /\ i # -1
                         THEN failureApplied \cup {wfID} ELSE failureApplied
    /\ finalSucceeded' = IF known /\ success /\ i = Len(workflows[wfID].Steps) - 1
                         THEN finalSucceeded \cup {wfID} ELSE finalSucceeded
    /\ UNCHANGED creating

\* A StepCompletedRequest carries Result when Success and ErrorMsg otherwise;
\* the branch taken for success=false makes one publish only.  A request for
\* an unknown workflow returns at line 94 before any other field is read, so
\* one representative request is drawn for it.
CompleteStep ==
    \E wfID \in WorkflowIDs, success \in BOOLEAN :
    \E stepID \in (IF wfID \in DOMAIN workflows THEN StepIDs ELSE {0}),
       result \in (IF success THEN Results ELSE {NoResult}),
       errorMsg \in (IF success THEN {""}
                     ELSE IF wfID \in DOMAIN workflows THEN ErrorMsgs
                     ELSE {"timeout"}),
       ok1 \in (IF wfID \in DOMAIN workflows THEN BOOLEAN ELSE {TRUE}),
       ok2 \in (IF success /\ wfID \in DOMAIN workflows THEN BOOLEAN ELSE {TRUE}) :
        /\ CompleteStepReq(wfID, stepID, success, result, errorMsg, ok1, ok2)
        /\ UNCHANGED notManager

Next ==
    \/ CreateWorkflowStore
    \/ CreateWorkflowPublish
    \/ CreateWorkflowStart
    \/ StartNextStep
    \/ CompleteStep
    \/ GetWorkflow

\* ------------------------------------------- EventBus.publishEvent (events)
\* pub is the EventBus with the one publishEvent call that is running on it:
\* MaxRetries is config.MaxRetries, a retry count (0 or more); i and lastErr
\* are the loop's variables; log lists, in order, every PublishWithContext
\* call with the error it returned and every time.Sleep(RetryDelay); ret is
\* the returned error.  The events published hold values decoded from JSON,
\* which json.Marshal always encodes, so the marshal error return is left out.
MaxRetriesBound == 3

\* The errors a PublishWithContext call can return.
TransportErrs == {<<"connection closed">>, <<"channel closed">>}

\* What a PublishWithContext call may return once its ctx is done, when the
\* client library gives up on it; the library may as well go on and send.
ContextErrs == {<<"context canceled">>, <<"context deadline exceeded">>}

\* ctx.Done() of the running call is still open.
ContextLive == -1

\* ctxDoneAt is the length log had when the ctx handed to the running call
\* was cancelled or passed its deadline, ContextLive before that.
NewEventBus(maxRetries) ==
    [MaxRetries |-> maxRetries, pc |-> "idle", i |-> 0, lastErr |-> NoErr,
     log |-> << >>, ret |-> NoErr, ctxDoneAt |-> ContextLive]

Attempt(err) == [kind |-> "attempt", err |-> err]
Sleep == [kind |-> "sleep", err |-> NoErr]

\* Mutant: the delay is also waited after the last attempt (i <= MaxRetries).
RetriesLeft_Inclusive(i, maxRetries) == i <= maxRetries

\* `if i < eb.config.MaxRetries`: another attempt follows this one.
RetriesLeft(i, maxRetries) == i < maxRetries

notPublish == <<mgrVars, dispatched, snapshot, handler, hubVars>>

\* A caller enters publishEvent: `var lastErr error; for i := 0; ...`.  The
\* ctx it hands in may be done already.
publishEvent_Enter ==
    /\ pub.pc \in {"idle", "returned"}
    /\ \E done \in BOOLEAN :
         pub' = [pub EXCEPT !.pc = "loop", !.i = 0, !.lastErr = NoErr,
                            !.log = << >>, !.ret = NoErr,
                            !.ctxDoneAt = IF done THEN 0 ELSE ContextLive]
    /\ UNCHANGED notPublish

\* The caller cancels ctx, or its deadline passes, while publishEvent runs.
\* Nothing in the loop reads ctx.Done() or ctx.Err().
publishEvent_ContextDone ==
    /\ pub.pc \in {"loop", "sleep"}
    /\ pub.ctxDoneAt = ContextLive
    /\ pub' = [pub EXCEPT !.ctxDoneAt = Len(pub.log)]
    /\ UNCHANGED notPublish

\* One pass of the loop body: PublishWithContext, `return nil` on success,
\* otherwise lastErr = err and the test for the delay; without a delay the
\* pass ends with i++.
publishEvent_Attempt ==
    /\ pub.pc = "loop"
    /\ pub.i <= pub.MaxRetries
    /\ \E err \in {NoErr} \cup TransportErrs
                \cup (IF pub.ctxDoneAt = ContextLive THEN {} ELSE ContextErrs) :
         pub' = IF err = NoErr
                THEN [pub EXCEPT !.log = Append(pub.log, Attempt(err)),
                                 !.ret = NoErr, !.pc = "returned"]
                ELSE IF RetriesLeft(pub.i, pub.MaxRetries)
                THEN [pub EXCEPT !.log = Append(pub.log, Attempt(err)),
                                 !.lastErr = err, !.pc = "sleep"]
                ELSE [pub EXCEPT !.log = Append(pub.log, Attempt(err)),
                                 !.lastErr = err, !.i = pub.i + 1]
    /\ UNCHANGED notPublish

\* time.Sleep(eb.config.RetryDelay), which runs its full time whatever
\* happens to ctx, then i++.
publishEvent_Sleep ==
    /\ pub.pc = "sleep"
    /\ pub' = [pub EXCEPT !.log = Append(pub.log, Sleep), !.i = pub.i + 1,
                          !.pc = "loop"]
    /\ UNCHANGED notPublish

\* The loop condition fails: the error return of line 230.
publishEvent_Exhausted ==
    /\ pub.pc = "loop"
    /\ pub.i > pub.MaxRetries
    /\ pub' = [pub EXCEPT !.pc = "returned",
                          !.ret = <<"failed to publish event after ",
                                    pub.MaxRetries, " retries: ">> \o pub.lastErr]
    /\ UNCHANGED notPublish

NextPublish ==
    \/ publishEvent_Enter
    \/ publishEvent_ContextDone
    \/ publishEvent_Attempt
    \/ publishEvent_Sleep
    \/ publishEvent_Exhausted

\* ------------------------------------------------------ Hub (websocket/hub.go)
\* The goroutines around one Hub: Run (the only one that takes the writer
\* lock), one ServeWS per connection with the readPump and writePump it
\* starts, and the callers of BroadcastWorkflowUpdate, which run on the
\* goroutines of the HTTP requests and take the reader lock.  Nothing sends
\* on Hub.broadcast, so that case of Run never runs.
MaxClients == 2
MaxNotifiers == 2
\* Capacity of Client.send (256 in ServeWS), scaled down.
SendCap == 1

NoClient == 0
Notifiers == 1..MaxNotifiers
HubWorkflows == {1, 2}
\* eventType is copied into the message and never read by the hub: one value.
HubEventTypes == {"step_completed"}

\* WebSocketMessage; Data is carried along and never read by the hub.
Message(type, wfID) == [Type |-> type, WorkflowID |-> wfID]

\* closes counts the close(client.send) calls made on the channel.
NewClient(wfID) ==
    [workflowID |-> wfID, send |-> << >>, closes |-> 0, readPump |-> "running"]

\* A BroadcastWorkflowUpdate call: todo are the map entries the range loop
\* has still to produce, cur the client whose select took the default case;
\* start, enq and full record the registry when the loop began, the clients
\* the call sent to and the clients whose buffer it found full.
IdleNotifier ==
    [pc |-> "idle", workflowID |-> 0, type |-> "", start |-> {}, todo |-> {},
     cur |-> NoClient, enq |-> {}, full |-> {}]

InitHub ==
    /\ clients = {}
    /\ client = << >>
    /\ register = NoClient
    /\ unregister = NoClient
    /\ notifier = [n \in Notifiers |-> IdleNotifier]

notHub == <<mgrVars, dispatched, snapshot, handler, pub>>

\* A runtime throw ("concurrent map iteration and map write") ends the process.
HubAlive == \A n \in Notifiers : notifier[n].pc # "fatal"

\* The goroutines holding h.mutex.RLock(); one that panicked never unlocks,
\* RUnlock is not deferred.
Readers == {n \in Notifiers : notifier[n].pc \in {"iter", "drop", "panic"}}

\* ServeWS, lines 166-174: make the client and hand it to Run; the send on
\* the unbuffered register channel completes when Run receives it.
ServeWS ==
    /\ HubAlive
    /\ Len(client) < MaxClients
    /\ register = NoClient
    /\ unregister = NoClient
    /\ \E wfID \in HubWorkflows :
           client' = Append(client, NewClient(wfID))
    /\ register' = Len(client) + 1
    /\ UNCHANGED <<clients, unregister, notifier>>
    /\ UNCHANGED notHub

\* Run, case register: Lock waits until no reader holds the mutex.
RunRegister ==
    /\ HubAlive
    /\ register # NoClient
    /\ Readers = {}
    /\ clients' = clients \cup {register}
    /\ register' = NoClient
    /\ UNCHANGED <<client, unregister, notifier>>
    /\ UNCHANGED notHub

\* readPump ends (the connection failed or was closed) and Run receives its
\* `c.hub.unregister <- c`; Run is back at its select only after the
\* register case it was in has finished.
ReadPumpExit ==
    /\ HubAlive
    /\ register = NoClient
    /\ unregister = NoClient
    /\ \E c \in 1..Len(client) :
           /\ client[c].readPump = "running"
           /\ client' = [client EXCEPT ![c].readPump = "exited"]
           /\ unregister' = c
    /\ UNCHANGED <<clients, register, notifier>>
    /\ UNCHANGED notHub

\* Run, case unregister: under Lock, `if ok { delete; close(client.send) }`.
RunUnregister ==
    /\ HubAlive
    /\ unregister # NoClient
    /\ Readers = {}
    /\ IF unregister \in clients
       THEN /\ clients' = clients \ {unregister}
            /\ client' = [client EXCEPT ![unregister].closes = @ + 1]
       ELSE UNCHANGED <<clients, client>>
    /\ unregister' = NoClient
    /\ UNCHANGED <<register, notifier>>
    /\ UNCHANGED notHub

\* writePump receives one message from c.send and writes it to the connection.
WritePump ==
    /\ HubAlive
    /\ \E c \in 1..Len(client) :
           /\ client[c].send # << >>
           /\ client' = [client EXCEPT ![c].send = Tail(@)]
    /\ UNCHANGED <<clients, register, unregister, notifier>>
    /\ UNCHANGED notHub

\* BroadcastWorkflowUpdate, lines 121-134: build the message, RLock (which
\* other readers do not exclude), begin `for client := range h.clients`.
\* The data is what the Notify* functions build and json.Marshal encodes it.
BroadcastBegin ==
    /\ HubAlive
    /\ \E n \in Notifiers, wfID \in HubWorkflows, type \in HubEventTypes :
           /\ notifier[n].pc \in {"idle", "returned"}
           /\ notifier' = [notifier EXCEPT ![n] =
                  [pc |-> "iter", workflowID |-> wfID, type |-> type,
                   start |-> clients, todo |-> clients, cur |-> NoClient,
                   enq |-> {}, full |-> {}]]
    /\ UNCHANGED <<clients, client, register, unregister>>
    /\ UNCHANGED notHub

\* One pass of the range loop, lines 134-138, on the entry c.  An entry that
\* another goroutine deleted while this loop runs is a write to the map
\* concurrent with its iteration: the loop either misses the entry or still
\* produces it.  The select sends when the buffer has room, panics on a
\* closed channel, and otherwise takes the default case.
BroadcastVisit ==
    /\ HubAlive
    /\ \E n \in Notifiers :
       LET r == notifier[n] IN
       /\ r.pc = "iter"
       /\ \E c \in r.todo, seen \in BOOLEAN :
          /\ c \in clients => seen
          /\ IF ~seen \/ client[c].workflowID # r.workflowID
             THEN /\ notifier' = [notifier EXCEPT ![n].todo = r.todo \ {c}]
                  /\ UNCHANGED client
             ELSE IF client[c].closes > 0
             THEN /\ notifier' = [notifier EXCEPT ![n].pc = "panic",
                                                  ![n].cur = c]
                  /\ UNCHANGED client
             ELSE IF Len(client[c].send) < SendCap
             THEN /\ client' = [client EXCEPT ![c].send =
                                    Append(@, Message(r.type, r.workflowID))]
                  /\ notifier' = [notifier EXCEPT ![n].todo = r.todo \ {c},
                                                  ![n].enq = r.enq \cup {c}]
             ELSE /\ notifier' = [notifier EXCEPT ![n].pc = "drop",
                                                  ![n].cur = c,
                                                  ![n].todo = r.todo \ {c},
                                                  ![n].full = r.full \cup {c}]
                  /\ UNCHANGED client
    /\ UNCHANGED <<clients, register, unregister>>
    /\ UNCHANGED notHub

\* The default case, lines 139-140: close(client.send), which panics on a
\* channel that is closed already, then delete(h.clients, client).  The
\* delete is a map write under the reader lock: while another goroutine is
\* in its range loop the runtime may detect it and end the process.
BroadcastDrop ==
    /\ HubAlive
    /\ \E n \in Notifiers, thrown \in BOOLEAN :
       LET r == notifier[n]
           c == r.cur
       IN
       /\ r.pc = "drop"
       /\ thrown => \E m \in Notifiers \ {n} : notifier[m].pc \in {"iter", "drop"}
       /\ IF client[c].closes > 0
          THEN /\ notifier' = [notifier EXCEPT ![n].pc = "panic"]
               /\ UNCHANGED <<clients, client>>
          ELSE /\ client' = [client EXCEPT ![c].closes = @ + 1]
               /\ clients' = clients \ {c}
               /\ notifier' = [notifier EXCEPT
                      ![n].pc = IF thrown THEN "fatal" ELSE "iter",
                      ![n].cur = NoClient]
    /\ UNCHANGED <<register, unregister>>
    /\ UNCHANGED notHub

\* The range loop is over: RUnlock and return.
BroadcastReturn ==
    /\ HubAlive
    /\ \E n \in Notifiers :
           /\ notifier[n].pc = "iter"
           /\ notifier[n].todo = {}
           /\ notifier' = [notifier EXCEPT ![n].pc = "returned"]
    /\ UNCHANGED <<clients, client, register, unregister>>
    /\ UNCHANGED notHub

NextHub ==
    \/ ServeWS
    \/ RunRegister
    \/ ReadPumpExit
    \/ RunUnregister
    \/ WritePump
    \/ BroadcastBegin
    \/ BroadcastVisit
    \/ BroadcastDrop
    \/ BroadcastReturn

\* ------------------------------------- WorkflowHandler.StepCompleted (gateway)
\* Each POST of a step report runs StepCompleted on its own goroutine.  The
\* call of a Hub.Notify* function is recorded in pushed; what the hub does
\* with it is the Hub section above.
MaxHandlers == 1
Handlers == 1..MaxHandlers

WSStepCompleted == "step_completed"
WSWorkflowCompleted == "workflow_completed"
WSWorkflowFailed == "workflow_failed"
NoPush == "none"

\* applied is the transition CompleteStep made for the request: none when it
\* named no step of a stored workflow, otherwise the failure of a step, the
\* completion of the last step or the completion of another step.
IdleHandler ==
    [pc |-> "idle", wf |-> 0, stepID |-> 0, success |-> FALSE,
     status |-> "", pushed |-> NoPush, applied |-> "none"]

Applied(store, wfID, stepID, success) ==
    IF wfID \notin DOMAIN store THEN "none"
    ELSE LET i == FindStep(store[wfID], stepID) IN
         IF i = -1 THEN "none"
         ELSE IF ~success THEN "failed"
         ELSE IF i = Len(store[wfID].Steps) - 1 THEN "final"
         ELSE "non-final"

notHandler == <<dispatched, snapshot, pub, hubVars>>

\* The goroutine of handler h runs lines 167-192 for one request.
StepCompleted_CompleteStepBy(h, wfID, stepID, success, result, errorMsg, ok1, ok2) ==
    LET err == CompleteStepCall(workflows, wfID, stepID, success,
                                result, errorMsg, ok1, ok2).err
    IN
    /\ CompleteStepReq(wfID, stepID, success, result, errorMsg, ok1, ok2)
    /\ handler' = [handler EXCEPT ![h] =
           [pc |-> IF err = NoErr THEN "notify" ELSE "done",
            wf |-> wfID, stepID |-> stepID, success |-> success,
            status |-> IF err = NoErr THEN "" ELSE "StatusInternalServerError",
            pushed |-> NoPush,
            applied |-> Applied(workflows, wfID, stepID, success)]]

\* StepCompleted, lines 167-192: decode the request and call CompleteStep; an
\* error is answered with 500 and the handler returns.
StepCompleted_CompleteStep ==
    \E h \in Handlers, wfID \in WorkflowIDs, success \in BOOLEAN :
    \E stepID \in (IF wfID \in DOMAIN workflows THEN StepIDs ELSE {0}),
       result \in (IF success THEN Results ELSE {NoResult}),
       errorMsg \in (IF success THEN {""}
                     ELSE IF wfID \in DOMAIN workflows THEN ErrorMsgs
                     ELSE {"timeout"}),
       ok1 \in (IF wfID \in DOMAIN workflows THEN BOOLEAN ELSE {TRUE}),
       ok2 \in (IF success /\ wfID \in DOMAIN workflows THEN BOOLEAN ELSE {TRUE}) :
        /\ handler[h].pc \in {"idle", "done"}
        /\ StepCompleted_CompleteStepBy(h, wfID, stepID, success, result,
                                        errorMsg, ok1, ok2)
        /\ UNCHANGED notHandler

\* The Notify* function StepCompleted calls for a request, lines 201-209, on
\* the workflow GetWorkflow returned.
NotifyFor(success, w) ==
    IF success
    THEN IF w.Status = StatusCompleted THEN WSWorkflowCompleted
         ELSE WSStepCompleted
    ELSE WSWorkflowFailed

\* The goroutine of handler h runs lines 194-224: GetWorkflow, then the
\* Notify* call chosen by what the workflow holds at that moment.
StepCompleted_NotifyBy(h) ==
    LET r == handler[h]
        g == GetWorkflowCall(workflows, r.wf)
    IN
    /\ r.pc = "notify"
    /\ handler' = [handler EXCEPT
           ![h].pc = "done",
           ![h].status = "StatusOK",
           ![h].pushed = IF g.err # NoErr THEN NoPush
                         ELSE NotifyFor(r.success, workflows[g.ptr])]
    /\ lastCall' = Call("GetWorkflow", r.wf, 0, FALSE, NoResult, "", g.err)
    /\ emitted' = << >>
    /\ UNCHANGED <<workflows, creating, failureApplied, finalSucceeded>>

\* StepCompleted, lines 194-224: GetWorkflow, the notification, the 200 answer.
StepCompleted_Notify ==
    \E h \in Handlers :
        /\ StepCompleted_NotifyBy(h)
        /\ UNCHANGED notHandler

NextHandler ==
    \/ CreateWorkflowStore
    \/ CreateWorkflowPublish
    \/ CreateWorkflowStart
    \/ StepCompleted_CompleteStep
    \/ StepCompleted_Notify

\* ------------------------------------------------- Manager.ListWorkflows
\* snapshot is the value a ListWorkflows call returned and its caller still
\* holds: a map of its own whose values are the pointers of the store.
NoSnapshot == [taken |-> FALSE, map |-> << >>]

\* Manager.ListWorkflows called; the caller keeps the result.
ListWorkflows ==
    /\ snapshot' = [taken |-> TRUE, map |-> ListWorkflowsCall(workflows)]
    /\ lastCall' = Call("ListWorkflows", 0, 0, FALSE, NoResult, "", NoErr)
    /\ emitted' = << >>
    /\ UNCHANGED <<workflows, creating, failureApplied, finalSucceeded>>
    /\ UNCHANGED <<dispatched, handler, pub, hubVars>>

\* What the holder of the returned map reads through it: each pointer
\* dereferenced.
ThroughSnapshot ==
    [k \in DOMAIN snapshot.map |-> workflows[snapshot.map[k]]]

NextList ==
    \/ CreateWorkflowStore
    \/ CreateWorkflowPublish
    \/ CreateWorkflowStart
    \/ StartNextStep
    \/ CompleteStep
    \/ ListWorkflows

\* ------------------------------------------------------- the pipeline run
\* The run of the pipeline when the broker and the three services work:
\* every publish succeeds, and a service reports a step that was handed to
\* it, once, with success=true.  dispatched holds the steps handed out and
\* not yet reported.
LiveWorkflows == 2

\* The steps a list of publish calls handed to a service.
Dispatches(events) ==
    {[wf |-> events[n].workflow, step |-> events[n].step] :
         n \in {k \in 1..Len(events) :
                    events[k].type = EventWorkflowNext /\ events[k].ok}}

LiveCreateWorkflowStore ==
    /\ CreateWorkflowStoreStep(LiveWorkflows)
    /\ UNCHANGED notManager

LiveCreateWorkflowPublish ==
    \E id \in DOMAIN creating :
        /\ CreateWorkflowPublishStep(id, TRUE)
        /\ UNCHANGED notManager

LiveCreateWorkflowStart ==
    \E id \in DOMAIN creating :
        /\ CreateWorkflowStartStep(id, TRUE)
        /\ dispatched' = dispatched \cup Dispatches(emitted')
        /\ UNCHANGED <<snapshot, handler, pub, hubVars>>

\* The service that was handed step d.step reports it.
LiveReport ==
    \E d \in dispatched, result \in Results :
        /\ CompleteStepReq(d.wf, d.step, TRUE, result, "", TRUE, TRUE)
        /\ dispatched' = (dispatched \ {d}) \cup Dispatches(emitted')
        /\ UNCHANGED <<snapshot, handler, pub, hubVars>>

NextLive ==
    \/ LiveCreateWorkflowStore
    \/ LiveCreateWorkflowPublish
    \/ LiveCreateWorkflowStart
    \/ LiveReport

\* ------------------------------------------------ concurrent CreateWorkflow
\* CreateWorkflow called from several goroutines at once.  Lines 40-41 of a
\* call work on values of its own (NewWorkflow and the identifiers uuid.New
\* hands out), so the first step of a call that other calls can observe is
\* the insertion under m.mutex.Lock(); everything after line 46 runs without
\* the lock and interleaves with the other calls.
ConcurrentCreates == 3

ConcurrentCreateWorkflowStore ==
    /\ CreateWorkflowStoreStep(ConcurrentCreates)
    /\ UNCHANGED notManager

NextCreate ==
    \/ ConcurrentCreateWorkflowStore
    \/ CreateWorkflowPublish
    \/ CreateWorkflowStart

\* ------------------------------------------------- concurrent step reports
\* The step reports of one pipeline run handled side by side: the broker
\* works, each service reports the step it was handed, once and with
\* success=true, and each report is a POST of its own, so StepCompleted runs
\* on one goroutine per report.  A service can report as soon as its step
\* was dispatched, which is before the handler of the previous report has
\* gone on from CompleteStep to GetWorkflow.
ConcurrentReports == 3
Reporters == 1..ConcurrentReports

ReportCompleteStep ==
    \E h \in Reporters, d \in dispatched, result \in Results :
        /\ handler[h].pc = "idle"
        /\ StepCompleted_CompleteStepBy(h, d.wf, d.step, TRUE, result, "",
                                        TRUE, TRUE)
        /\ dispatched' = (dispatched \ {d}) \cup Dispatches(emitted')
        /\ UNCHANGED <<snapshot, pub, hubVars>>

ReportNotify ==
    \E h \in Reporters :
        /\ StepCompleted_NotifyBy(h)
        /\ UNCHANGED notHandler

NextReports ==
    \/ CreateWorkflowStore
    \/ LiveCreateWorkflowPublish
    \/ LiveCreateWorkflowStart
    \/ ReportCompleteStep
    \/ ReportNotify

Init ==
    /\ InitManager
    /\ dispatched = {}
    /\ snapshot = NoSnapshot
    /\ handler = [h \in Handlers |-> IdleHandler]
    /\ pub = NewEventBus(0)
    /\ InitHub

Spec == Init /\ [][Next]_vars

\* The event bus alone, for every configured retry count up to the bound.
InitPublish ==
    /\ InitManager
    /\ dispatched = {}
    /\ snapshot = NoSnapshot
    /\ handler = [h \in Handlers |-> IdleHandler]
    /\ pub \in {NewEventBus(m) : m \in 0..MaxRetriesBound}
    /\ InitHub

SpecPublish == InitPublish /\ [][NextPublish]_vars

\* The step reports arriving through the HTTP handler.
SpecHandler == Init /\ [][NextHandler]_vars

\* The pipeline with a working broker and working services.  A CreateWorkflow
\* call that has started runs on (its goroutine is scheduled), and a step
\* that was handed out is reported.
SpecLive ==
    /\ Init
    /\ [][NextLive]_vars
    /\ WF_vars(LiveCreateWorkflowPublish)
    /\ WF_vars(LiveCreateWorkflowStart)
    /\ WF_vars(LiveReport)

\* The Manager with a caller that lists the workflows and keeps the result.
SpecList == Init /\ [][NextList]_vars

\* The hub alone.
SpecHub == Init /\ [][NextHub]_vars

\* CreateWorkflow calls running side by side, nothing else.
SpecCreate == Init /\ [][NextCreate]_vars

\* One pipeline run with a handler goroutine for each of its step reports.
InitReports ==
    /\ InitManager
    /\ dispatched = {}
    /\ snapshot = NoSnapshot
    /\ handler = [h \in Reporters |-> IdleHandler]
    /\ pub = NewEventBus(0)
    /\ InitHub

SpecReports == InitReports /\ [][NextReports]_vars

\* ------------------------------------------------------------------ claims
StepStatuses(w) == [k \in 1..Len(w.Steps) |-> w.Steps[k].Status]

Range(seq) == {seq[n] : n \in 1..Len(seq)}

\* The request of the last operation named a step of the workflow it named.
LastCallNamed(op) ==
    /\ lastCall.op = op
    /\ lastCall.wf \in DOMAIN workflows

\* C1: for every product payload, the workflow that CreateWorkflow stores has exactly three steps in the
\* order image_processing, ai_enhancement, seo_generation, every step pending,
\* CurrentStep 0 and status pending at the moment it enters the store.
C1_StoredWorkflowIsPending ==
    [][\A id \in WorkflowIDs :
          (id \notin DOMAIN workflows /\ id \in DOMAIN workflows') =>
              LET w == workflows'[id] IN
              /\ Len(w.Steps) = 3
              /\ w.Steps[1].Type = "image_processing"
              /\ w.Steps[2].Type = "ai_enhancement"
              /\ w.Steps[3].Type = "seo_generation"
              /\ \A k \in 1..3 : w.Steps[k].Status = "pending"
              /\ w.CurrentStep = 0
              /\ w.Status = "pending"]_vars

C1_Witness ==
    /\ LastCallNamed("CreateWorkflow:store")
    /\ creating[lastCall.wf] = "publish"
    /\ workflows[lastCall.wf].Metadata = "Table"
    /\ workflows[lastCall.wf].Status = "pending"

\* What C2 promises of a completion: the cursor of workflow w moved on by
\* exactly one in w1 and the step it now points at is processing.
C2_Advanced(w, w1) ==
    /\ w1.CurrentStep = w.CurrentStep + 1
    /\ w1.CurrentStep < Len(w1.Steps)
    /\ w1.Steps[w1.CurrentStep + 1].Status = "processing"

\* C2 as stated: every CompleteStep with success=true that names a non-final
\* step of a known workflow, the dispatch publish succeeding, moves
\* CurrentStep on by exactly 1 and sets the step it then points at processing.
C2_AnyNonFinalStepAdvances ==
    [][LET c == lastCall' IN
       (/\ c.op = "CompleteStep"
        /\ c.success
        /\ c.wf \in DOMAIN workflows
        /\ FindStep(workflows[c.wf], c.stepID) \in 0..(Len(workflows[c.wf].Steps) - 2)
        /\ \E n \in 1..Len(emitted') :
              emitted'[n].type = EventWorkflowNext /\ emitted'[n].ok)
       => C2_Advanced(workflows[c.wf], workflows'[c.wf])]_vars

\* C2 as amended: a CompleteStep with success=true that names the current
\* step of a known workflow, that step not being the final one and the
\* dispatch publish succeeding, moves CurrentStep on by exactly 1 and sets
\* the step it then points at processing.
C2_CurrentNonFinalStepAdvances ==
    \A wfID \in DOMAIN workflows, result \in Results, ok1 \in BOOLEAN :
        LET w == workflows[wfID] IN
        w.CurrentStep < Len(w.Steps) - 1 =>
            LET r == CompleteStepCall(workflows, wfID, w.Steps[w.CurrentStep + 1].ID,
                                      TRUE, result, "", ok1, TRUE)
            IN C2_Advanced(w, r.store[wfID])

C2_Witness ==
    /\ LastCallNamed("CompleteStep")
    /\ lastCall.success
    /\ lastCall.err = NoErr
    /\ LET w == workflows[lastCall.wf] IN
       /\ w.CurrentStep = 1
       /\ lastCall.stepID = w.Steps[1].ID
       /\ w.Steps[1].Status = "completed"
       /\ w.Steps[2].Status = "processing"

\* C3: every CompleteStep with success=true that names the final step of a
\* known workflow leaves the workflow completed, with CompletedAt set and
\* CurrentStep equal to the number of steps, and once such a call has been
\* made no step of that workflow changes status again.
C3_FinalStepCompletesForGood ==
    [][LET c == lastCall' IN
       /\ (/\ c.op = "CompleteStep"
           /\ c.success
           /\ c.wf \in DOMAIN workflows
           /\ FindStep(workflows[c.wf], c.stepID) = Len(workflows[c.wf].Steps) - 1)
          => LET w1 == workflows'[c.wf] IN
             /\ w1.Status = "completed"
             /\ w1.CompletedAt # NoTime
             /\ w1.CurrentStep = Len(w1.Steps)
       /\ \A id \in finalSucceeded :
             StepStatuses(workflows'[id]) = StepStatuses(workflows[id])]_vars

\* C4: every CompleteStep with success=false that names a step of a known
\* workflow sets that step failed and the workflow failed, stores the caller's
\* message unchanged as the step's and the workflow's ErrorMsg, and returns an
\* error that carries the message.
C4_FailureIsRecorded ==
    \A wfID \in DOMAIN workflows, msg \in ErrorMsgs, ok1 \in BOOLEAN :
    \A k \in 1..Len(workflows[wfID].Steps) :
        LET r == CompleteStepCall(workflows, wfID, workflows[wfID].Steps[k].ID,
                                  FALSE, NoResult, msg, ok1, TRUE)
            w1 == r.store[wfID]
        IN /\ w1.Steps[k].Status = "failed"
           /\ w1.Status = "failed"
           /\ w1.Steps[k].ErrorMsg = msg
           /\ w1.ErrorMsg = msg
           /\ r.err # NoErr
           /\ r.err[Len(r.err)] = msg

C4_Witness ==
    /\ LastCallNamed("CompleteStep")
    /\ ~lastCall.success
    /\ lastCall.errorMsg = "timeout"
    /\ lastCall.err = <<"workflow step failed: ", "timeout">>
    /\ LET w == workflows[lastCall.wf]
           i == FindStep(w, lastCall.stepID)
       IN /\ i # -1
          /\ w.Steps[i + 1].Status = "failed"
          /\ w.Status = "failed"
          /\ w.ErrorMsg = "timeout"

\* C5: completed and failed are terminal: once a workflow's status is
\* completed or failed no later call changes it.
C5_TerminalStatusStays ==
    [][\A id \in DOMAIN workflows :
          workflows[id].Status \in {"completed", "failed"}
              => workflows'[id].Status = workflows[id].Status]_vars

\* C6: in every reachable state each workflow has at most one step whose
\* status is processing.
C6_AtMostOneProcessing ==
    \A id \in DOMAIN workflows :
        Cardinality({k \in 1..Len(workflows[id].Steps) :
                         workflows[id].Steps[k].Status = "processing"}) <= 1

C6_Witness ==
    /\ LastCallNamed("CompleteStep")
    /\ lastCall.success
    /\ LET w == workflows[lastCall.wf] IN
       /\ w.CurrentStep = 2
       /\ lastCall.stepID = w.Steps[2].ID
       /\ w.Steps[3].Status = "processing"
       /\ w.Steps[1].Status = "completed"
       /\ w.Steps[2].Status = "completed"

\* C7: in every reachable state 0 <= CurrentStep <= number of steps, and
\* CurrentStep equals the number of steps if and only if the workflow is
\* completed.
C7_CursorInRangeAndEndIffCompleted ==
    \A id \in DOMAIN workflows :
        LET w == workflows[id] IN
        /\ 0 <= w.CurrentStep
        /\ w.CurrentStep <= Len(w.Steps)
        /\ (w.CurrentStep = Len(w.Steps)) <=> (w.Status = "completed")

\* C8: after a CompleteStep with success=false has been applied to a workflow
\* no step-dispatch event is emitted for it again and no later call sets one
\* of its steps processing.
C8_NoDispatchAfterFailure ==
    [][\A id \in failureApplied :
          /\ \A n \in 1..Len(emitted') :
                ~(/\ emitted'[n].type = EventWorkflowNext
                  /\ emitted'[n].workflow = id
                  /\ emitted'[n].ok)
          /\ \A k \in 1..Len(workflows[id].Steps) :
                workflows'[id].Steps[k].Status = "processing"
                    => workflows[id].Steps[k].Status = "processing"]_vars

\* C9: a CompleteStep on a known workflow with a step id that matches none of
\* its steps changes no step's status, result or error message and changes
\* neither the workflow's status nor its CurrentStep.
C9_UnknownStepChangesNothing ==
    [][LET c == lastCall' IN
       (/\ c.op = "CompleteStep"
        /\ c.wf \in DOMAIN workflows
        /\ FindStep(workflows[c.wf], c.stepID) = -1)
       => LET w == workflows[c.wf]
              w1 == workflows'[c.wf]
          IN /\ \A k \in 1..Len(w.Steps) :
                    /\ w1.Steps[k].Status = w.Steps[k].Status
                    /\ w1.Steps[k].Result = w.Steps[k].Result
                    /\ w1.Steps[k].ErrorMsg = w.Steps[k].ErrorMsg
             /\ w1.Status = w.Status
             /\ w1.CurrentStep = w.CurrentStep]_vars

\* C10: StartNextStep on a workflow whose CurrentStep equals the number of
\* steps fails with the 'no more steps' error, changes no workflow or step
\* field and makes no publish call.
C10_ExhaustedPipelineIsRefused ==
    \A id \in DOMAIN workflows, ok \in BOOLEAN :
        workflows[id].CurrentStep = Len(workflows[id].Steps) =>
            LET r == StartNextStepCall(workflows, id, ok) IN
            /\ r.err = <<"no more steps to execute">>
            /\ r.store = workflows
            /\ r.events = << >>

C10_Witness ==
    /\ LastCallNamed("StartNextStep")
    /\ lastCall.err = <<"no more steps to execute">>
    /\ emitted = << >>
    /\ workflows[lastCall.wf].CurrentStep = Len(workflows[lastCall.wf].Steps)

\* C11: StartNextStep on a workflow that has a remaining step sets the step
\* at CurrentStep processing (and a pending workflow processing) whether or
\* not the dispatch publish succeeds; it returns an error if and only if the
\* publish fails, and the step is processing on that error too.
C11_StartMarksWhateverThePublish ==
    \A id \in DOMAIN workflows, ok \in BOOLEAN :
        LET w == workflows[id] IN
        w.CurrentStep < Len(w.Steps) =>
            LET r == StartNextStepCall(workflows, id, ok)
                w1 == r.store[id]
            IN /\ w1.Steps[w.CurrentStep + 1].Status = "processing"
               /\ w1.CurrentStep = w.CurrentStep
               /\ (w.Status = "pending" => w1.Status = "processing")
               /\ (r.err # NoErr) <=> ~ok

C11_Witness ==
    /\ LastCallNamed("StartNextStep")
    /\ lastCall.err = <<"failed to publish next step event: ">> \o PublishErr
    /\ Len(emitted) = 1
    /\ ~emitted[1].ok
    /\ LET w == workflows[lastCall.wf] IN
       /\ w.CurrentStep < Len(w.Steps)
       /\ w.Steps[w.CurrentStep + 1].Status = "processing"
       /\ w.Status = "processing"

\* The call makes a step-dispatch publish.
C12_Dispatches(r) ==
    \E n \in 1..Len(r.events) : r.events[n].type = EventWorkflowNext

\* C12: in CompleteStep a failure to publish the step-completed,
\* workflow-completed or workflow-failed event is never returned and never
\* changes the outcome: for the same call in the same state the resulting
\* store and the return value are the same whether those publishes succeed
\* or fail.
C12_CompletionPublishesAreBestEffort ==
    \A wfID \in DOMAIN workflows, stepID \in StepIDs, success \in BOOLEAN :
    \A result \in Results, errorMsg \in ErrorMsgs :
    \A ok1a \in BOOLEAN, ok1b \in BOOLEAN, ok2a \in BOOLEAN, ok2b \in BOOLEAN :
        LET ra == CompleteStepCall(workflows, wfID, stepID, success,
                                   result, errorMsg, ok1a, ok2a)
            rb == CompleteStepCall(workflows, wfID, stepID, success,
                                   result, errorMsg, ok1b, ok2b)
        IN (C12_Dispatches(ra) => ok2a = ok2b) =>
               /\ ra.store = rb.store
               /\ ra.err = rb.err
               /\ \A n \in 1..Len(ra.err) : ra.err[n] \notin Range(PublishErr)
                      \/ C12_Dispatches(ra)

C12_Witness ==
    /\ LastCallNamed("CompleteStep")
    /\ lastCall.success
    /\ lastCall.err = NoErr
    /\ Len(emitted) = 2
    /\ emitted[1].type = EventStepCompleted /\ ~emitted[1].ok
    /\ emitted[2].type = EventWorkflowDone /\ ~emitted[2].ok
    /\ workflows[lastCall.wf].Status = "completed"

\* C13: if publishing the workflow-started event fails, CreateWorkflow
\* reports an error while the new workflow stays in the store (GetWorkflow
\* and ListWorkflows return it); nothing CreateWorkflow stored is removed.
C13_FailedStartKeepsWorkflow ==
    [][/\ DOMAIN workflows \subseteq DOMAIN workflows'
       /\ LET c == lastCall' IN
          (/\ c.op = "CreateWorkflow:publish"
           /\ ~emitted'[1].ok)
          => /\ c.err # NoErr
             /\ workflows' = workflows
             /\ GetWorkflowCall(workflows', c.wf).err = NoErr
             /\ GetWorkflowCall(workflows', c.wf).ptr = c.wf
             /\ c.wf \in DOMAIN ListWorkflowsCall(workflows')]_vars

C13_Witness ==
    /\ LastCallNamed("CreateWorkflow:publish")
    /\ lastCall.err = <<"failed to start workflow: ">> \o PublishErr
    /\ creating[lastCall.wf] = "done"
    /\ workflows[lastCall.wf].Status = "pending"

\* C14: GetWorkflow, StartNextStep and CompleteStep called with a workflow
\* identifier that is not in the store return a not-found error, leave the
\* store unchanged and make no publish call.
C14_UnknownWorkflowIsNotFound ==
    \A wfID \in WorkflowIDs \ DOMAIN workflows :
        /\ GetWorkflowCall(workflows, wfID)
               = [ptr |-> NilPtr, err |-> <<"workflow not found: ", wfID>>]
        /\ \A ok \in BOOLEAN :
               StartNextStepCall(workflows, wfID, ok)
                   = [store |-> workflows, err |-> <<"workflow not found: ", wfID>>,
                      events |-> << >>]
        /\ \A stepID \in StepIDs, success \in BOOLEAN, result \in Results,
              errorMsg \in ErrorMsgs, ok1 \in BOOLEAN, ok2 \in BOOLEAN :
               CompleteStepCall(workflows, wfID, stepID, success, result,
                                errorMsg, ok1, ok2)
                   = [store |-> workflows, err |-> <<"workflow not found: ", wfID>>,
                      events |-> << >>]

C14_Witness ==
    /\ lastCall.op \in {"GetWorkflow", "StartNextStep", "CompleteStep"}
    /\ lastCall.wf \notin DOMAIN workflows
    /\ lastCall.err = <<"workflow not found: ", lastCall.wf>>
    /\ DOMAIN workflows # {}
    /\ emitted = << >>

\* The PublishWithContext calls of the running publishEvent call, in order.
IsAttempt(e) == e.kind = "attempt"

Attempts == SelectSeq(pub.log, IsAttempt)

\* C15: publishEvent makes at most MaxRetries+1 attempts, stops at the first
\* attempt that succeeds and returns nil, returns an error that carries the
\* last attempt's error if and only if every attempt failed, and waits the
\* delay only between two attempts, never after the last one.
C15_RetryContract ==
    /\ Len(Attempts) <= pub.MaxRetries + 1
    /\ \A k \in 1..Len(pub.log) :
           pub.log[k] = Attempt(NoErr)
               => /\ k = Len(pub.log)
                  /\ pub.pc = "returned"
                  /\ pub.ret = NoErr
    /\ pub.pc = "returned" =>
           /\ Len(Attempts) >= 1
           /\ (pub.ret # NoErr)
                  <=> (\A k \in 1..Len(Attempts) : Attempts[k].err # NoErr)
           /\ pub.ret # NoErr =>
                  /\ Len(Attempts) = pub.MaxRetries + 1
                  /\ pub.ret = <<"failed to publish event after ",
                                 pub.MaxRetries, " retries: ">>
                               \o Attempts[Len(Attempts)].err
    /\ \A k \in 1..Len(pub.log) :
           pub.log[k] = Sleep
               => /\ k > 1
                  /\ IsAttempt(pub.log[k - 1])
                  /\ IF k < Len(pub.log)
                     THEN IsAttempt(pub.log[k + 1])
                     ELSE pub.pc = "loop" /\ pub.i <= pub.MaxRetries

C15_Witness ==
    /\ pub.pc = "returned"
    /\ pub.MaxRetries = 2
    /\ Len(Attempts) = 3
    /\ Attempts[1].err # Attempts[3].err
    /\ pub.ret = <<"failed to publish event after ", 2, " retries: ">>
                 \o Attempts[3].err
    /\ pub.log[2] = Sleep /\ pub.log[4] = Sleep /\ Len(pub.log) = 5

\* The BroadcastWorkflowUpdate calls that are over: returned, or ended by a
\* panic or by a runtime throw.
Ended == {n \in Notifiers : notifier[n].pc \in {"returned", "panic", "fatal"}}

\* The clients that were registered when call n began, are subscribed to the
\* workflow it names and are registered still.
StillSubscribed(n) ==
    {c \in notifier[n].start \cap clients :
         client[c].workflowID = notifier[n].workflowID}

\* C16: a notify call enqueues one message on every registered observer of
\* the workflow whose buffer has room and nothing on the observers of other
\* workflows; with no observer of the workflow it changes nothing and raises
\* no error.
C16_NotifyReachesEverySubscriber ==
    \A n \in Ended :
        LET r == notifier[n] IN
        /\ \A c \in StillSubscribed(n) : c \in r.enq
        /\ \A c \in r.enq : client[c].workflowID = r.workflowID
        /\ (\A c \in r.start : client[c].workflowID # r.workflowID)
               => r.pc = "returned" /\ r.enq = {} /\ r.full = {}

\* C17: when a notify call finds an observer of the workflow with a full
\* buffer, that observer is removed from the registry and its channel is
\* closed during the call, every other registered observer of the workflow
\* still receives the message, and the call completes.
C17_FullObserverIsDroppedOthersReceive ==
    \A n \in Ended :
        LET r == notifier[n] IN
        r.full # {} =>
            /\ r.pc = "returned"
            /\ \A c \in r.full : c \notin clients /\ client[c].closes = 1
            /\ \A c \in StillSubscribed(n) \ r.full : c \in r.enq

\* The notification the claim names for a transition.
C18_Expected(applied) ==
    IF applied = "failed" THEN WSWorkflowFailed
    ELSE IF applied = "final" THEN WSWorkflowCompleted
    ELSE WSStepCompleted

\* C18: every step report whose CompleteStep applied a transition ends with
\* a push notification: step_completed for a successful step that is not the
\* last, workflow_completed for the successful last step, workflow_failed for
\* a report with success=false.
C18_EveryTransitionIsPushed ==
    \A h \in Handlers :
        (handler[h].pc = "done" /\ handler[h].applied # "none")
            => handler[h].pushed = C18_Expected(handler[h].applied)

\* Step k of workflow id is in progress: the steps before it are completed,
\* the steps after it pending, the cursor is on it.
C19_InProgress(id, k) ==
    /\ id \in DOMAIN workflows
    /\ LET w == workflows[id] IN
       /\ w.Status = StatusProcessing
       /\ w.CurrentStep = k - 1
       /\ \A j \in 1..Len(w.Steps) :
              w.Steps[j].Status = IF j < k THEN StepStatusCompleted
                                  ELSE IF j = k THEN StepStatusProcessing
                                  ELSE StepStatusPending

C19_Done(id) ==
    /\ id \in DOMAIN workflows
    /\ LET w == workflows[id] IN
       /\ w.Status = StatusCompleted
       /\ w.CompletedAt # NoTime
       /\ Len(w.Steps) = 3
       /\ \A j \in 1..Len(w.Steps) : w.Steps[j].Status = StepStatusCompleted

\* C19: when every publish succeeds and every dispatched step is reported
\* once with success=true, a created workflow has step 1, then step 2, then
\* step 3 in progress and then is completed, all three steps completed and
\* CompletedAt set.
C19_PipelineRunsToCompletion ==
    \A id \in 1..LiveWorkflows :
        [](( id \in DOMAIN creating /\ creating[id] = "publish")
            => <>(C19_InProgress(id, 1)
                  /\ <>(C19_InProgress(id, 2)
                        /\ <>(C19_InProgress(id, 3) /\ <>C19_Done(id)))))

C19_Witness ==
    /\ \A id \in 1..LiveWorkflows : C19_Done(id)
    /\ dispatched = {}
    /\ lastCall.op = "CompleteStep"
    /\ emitted[Len(emitted)].type = EventWorkflowDone

\* C20: the value ListWorkflows returned is a snapshot: no later
\* CreateWorkflow, StartNextStep or CompleteStep changes what is read through
\* it (the set of workflows, their status, steps and CurrentStep).
C20_ListIsSnapshot ==
    [][(snapshot.taken /\ snapshot' = snapshot)
           => ThroughSnapshot' = ThroughSnapshot]_vars

\* The status changes the lifecycle of a step allows.
C23_Lifecycle ==
    {<<StepStatusPending, StepStatusProcessing>>,
     <<StepStatusProcessing, StepStatusCompleted>>,
     <<StepStatusProcessing, StepStatusFailed>>}

\* C23: every change of a step's status is Pending->Processing,
\* Processing->Completed or Processing->Failed.
C23_StepLifecycle ==
    [][\A id \in DOMAIN workflows :
          \A k \in 1..Len(workflows[id].Steps) :
              LET old == workflows[id].Steps[k].Status
                  new == workflows'[id].Steps[k].Status
              IN old # new => <<old, new>> \in C23_Lifecycle]_vars

\* C26: a step-dispatch event names the step at the cursor and every step
\* before it has been marked completed (MarkStepCompleted has set its
\* CompletedAt); the cursor never moves back, so the dispatch events of a
\* workflow come in non-decreasing pipeline order.
C26_DispatchFollowsCompletion ==
    [][/\ \A n \in 1..Len(emitted') :
              emitted'[n].type = EventWorkflowNext =>
                  LET w1 == workflows'[emitted'[n].workflow]
                      k == FindStep(w1, emitted'[n].step)
                  IN /\ k # -1
                     /\ k = w1.CurrentStep
                     /\ \A j \in 1..k : w1.Steps[j].CompletedAt # NoTime
       /\ \A id \in DOMAIN workflows :
              workflows'[id].CurrentStep >= workflows[id].CurrentStep]_vars

C26_Witness ==
    /\ LastCallNamed("CompleteStep")
    /\ Len(emitted) = 2
    /\ emitted[2].type = EventWorkflowNext
    /\ emitted[2].step = StepOf(lastCall.wf, 3)
    /\ lastCall.stepID = StepOf(lastCall.wf, 2)
    /\ workflows[lastCall.wf].Steps[2].Status = StepStatusCompleted
    /\ workflows[lastCall.wf].Steps[3].Status = StepStatusProcessing

\* C27: a workflow whose status is completed has all its steps completed.
C27_CompletedHasAllStepsCompleted ==
    \A id \in DOMAIN workflows :
        workflows[id].Status = StatusCompleted
            => \A k \in 1..Len(workflows[id].Steps) :
                   workflows[id].Steps[k].Status = StepStatusCompleted

\* C28: a CompleteStep on a known workflow with a step id that matches none
\* of its steps makes no publish call.
C28_UnknownStepEmitsNothing ==
    [][LET c == lastCall' IN
       (/\ c.op = "CompleteStep"
        /\ c.wf \in DOMAIN workflows
        /\ FindStep(workflows[c.wf], c.stepID) = -1)
       => emitted' = << >>]_vars

\* C24: registration, unregistration and notification are processed one at a
\* time: at most one goroutine is inside the observer registry at any moment,
\* and a notify call that is about to delete an observer from the registry is
\* the only one inside it.
C24_RegistryAccessIsSerialised ==
    /\ Cardinality(Readers) <= 1
    /\ \A n \in Notifiers : notifier[n].pc = "drop" => Readers = {n}

\* C29: under concurrent notify calls, registrations and unregistrations no
\* observer's channel is closed twice and nothing is sent on a closed
\* channel (either one is a panic of the goroutine that does it); an
\* unregister of an observer that a notify call dropped closes nothing.
C29_ChannelClosedOnceNoSendAfter ==
    /\ \A c \in 1..Len(client) : client[c].closes <= 1
    /\ \A n \in Notifiers : notifier[n].pc # "panic"
    /\ (unregister # NoClient /\ unregister \notin clients)
           => client[unregister].closes <= 1

\* C21: with CreateWorkflow calls running concurrently every stored workflow
\* has an identifier of its own and is stored under it, each insertion adds
\* exactly one entry under an identifier the store did not hold and leaves
\* the entries it held as they were, and no entry ever disappears: after N
\* calls have inserted the store holds N workflows more than before.
C21_ConcurrentCreatesAllStored ==
    [][/\ \A a, b \in DOMAIN workflows' :
              workflows'[a].ID = workflows'[b].ID => a = b
       /\ \A a \in DOMAIN workflows' : workflows'[a].ID = a
       /\ lastCall'.op = "CreateWorkflow:store" =>
              /\ lastCall'.wf \notin DOMAIN workflows
              /\ DOMAIN workflows' = DOMAIN workflows \cup {lastCall'.wf}
              /\ \A k \in DOMAIN workflows : workflows'[k] = workflows[k]
       /\ DOMAIN workflows \subseteq DOMAIN workflows'
       /\ Cardinality(DOMAIN workflows') = Cardinality(DOMAIN creating')]_vars

\* Three calls have inserted and none of them has returned.
C21_Witness ==
    /\ Cardinality(DOMAIN workflows) = ConcurrentCreates
    /\ \A id \in DOMAIN creating : creating[id] # "done"
    /\ \E id \in DOMAIN creating : creating[id] = "start"
    /\ lastCall.op = "CreateWorkflow:store"

\* C22: nothing else reads or modifies the store while a CreateWorkflow call
\* is between its insertion and its return: the next operation on the
\* Manager is the continuation of that call.  (StartNextStep and
\* CompleteStep are one step each: Lock at entry, Unlock deferred.)
C22_CreateWorkflowHoldsTheLock ==
    [][\A id \in DOMAIN creating :
           creating[id] \in {"publish", "start"} =>
               /\ lastCall'.wf = id
               /\ lastCall'.op \in {"CreateWorkflow:publish",
                                    "CreateWorkflow:start"}]_vars

\* C25: once the ctx of a publishEvent call is done, the call makes no
\* further PublishWithContext attempt and waits no further retry delay: its
\* log of attempts and delays is as long as it was when ctx fired.
C25_NothingAfterContextDone ==
    pub.ctxDoneAt # ContextLive => Len(pub.log) = pub.ctxDoneAt

\* C30: with the three step reports of a run handled concurrently, each
\* handler that has answered sent the notification of the transition its own
\* CompleteStep applied, and when all three have answered the observers were
\* sent step_completed twice and workflow_completed once.
C30_ConcurrentReportsNotifyTheirOwnTransition ==
    /\ \A h \in Reporters :
           (handler[h].pc = "done" /\ handler[h].applied = "non-final")
               => handler[h].pushed = WSStepCompleted
    /\ \A h \in Reporters :
           (handler[h].pc = "done" /\ handler[h].applied = "final")
               => handler[h].pushed = WSWorkflowCompleted
    /\ (\A h \in Reporters : handler[h].pc = "done") =>
           /\ Cardinality({h \in Reporters :
                               handler[h].pushed = WSStepCompleted}) = 2
           /\ Cardinality({h \in Reporters :
                               handler[h].pushed = WSWorkflowCompleted}) = 1

====
